---- MODULE Spec2Model ----
(***************************************************************************)
(* A model of the DigitalOcean salt-cloud driver                           *)
(* (salt/cloud/clouds/digital_ocean.py): the create and destroy flows, the *)
(* instance lookup, the polling for a public address and the DNS cleanup.  *)
(*                                                                         *)
(* Strings are sequences of one-character strings, so that split, join and *)
(* lower are computed and not assumed.  Every remote call the driver makes *)
(* is one step of the model; the provider's answer to it (an HTTP error, a *)
(* listing, a record set) is chosen by the environment in that step.       *)
(*                                                                         *)
(* Spec runs create or destroy.  SpecQuery, SpecList, SpecResolve and      *)
(* SpecLookup each run one function of the driver alone, on every input of *)
(* the model: query on a response, a paginated listing on a collection,    *)
(* get_image, get_size and get_location on a listed collection and a       *)
(* selector, _get_node on a name and the listings fetched for it.          *)
(***************************************************************************)
EXTENDS Integers, Sequences, FiniteSets, TLC

(***************************************************************************)
(* Bounds of the model.                                                    *)
(***************************************************************************)
\* the largest wait_for_ip_timeout a request carries, in units of the interval
MaxWaitTimeout == 2

(***************************************************************************)
(* Python values.                                                          *)
(***************************************************************************)
\* Python's None; no string of the model equals it (its one element is not a character)
None == <<"<None>">>

\* str.lower() over the alphabet of the model
LowerChar(c) ==
    IF c = "A" THEN "a" ELSE IF c = "B" THEN "b" ELSE IF c = "S" THEN "s"
    ELSE IF c = "E" THEN "e" ELSE IF c = "R" THEN "r" ELSE IF c = "O" THEN "o" ELSE c

Lower(s) == [i \in 1..Len(s) |-> LowerChar(s[i])]

\* str.split(sep) for a one-character separator
RECURSIVE SplitOn(_, _)
SplitOn(sep, s) ==
    IF s = <<>> THEN << <<>> >>
    ELSE IF Head(s) = sep THEN << <<>> >> \o SplitOn(sep, Tail(s))
    ELSE LET r == SplitOn(sep, Tail(s)) IN << <<Head(s)>> \o Head(r) >> \o Tail(r)

\* str.split('.')
Split(s) == SplitOn(".", s)

\* '.'.join(parts)
RECURSIVE Join(_)
Join(parts) ==
    IF parts = <<>> THEN <<>>
    ELSE IF Len(parts) = 1 THEN Head(parts)
    ELSE Head(parts) \o <<".">> \o Join(Tail(parts))

\* parts[-2:]
LastTwo(parts) ==
    IF Len(parts) <= 2 THEN parts ELSE SubSeq(parts, Len(parts) - 1, Len(parts))

\* parts[:-2]
AllButLastTwo(parts) ==
    IF Len(parts) <= 2 THEN <<>> ELSE SubSeq(parts, 1, Len(parts) - 2)

\* a truthy Python string: neither None nor empty
Truthy(s) == s # None /\ s # <<>>

(***************************************************************************)
(* Exceptions and results.                                                 *)
(***************************************************************************)
Exc(type, msg) == [type |-> type, msg |-> msg]

\* no exception
NoExc == Exc("none", "none")

\* query, line 536: a status above this is an error
StatusLimit == 299

\* what query raises on a status above 299
HttpError == Exc("SaltCloudSystemExit", "http")

\* the state of the operation's result: running, returned a value, or raised
Running == [state |-> "running", value |-> "none", exc |-> NoExc]
Returned(v) == [state |-> "returned", value |-> v, exc |-> NoExc]
Raised(e) == [state |-> "raised", value |-> "none", exc |-> e]

\* one remote call: HTTP verb, resource, numeric id (0: none), domain (None: none)
Call(verb, res, id, domain) == [verb |-> verb, res |-> res, id |-> id, domain |-> domain]

(***************************************************************************)
(* The provider's collections, as the listing calls return them.           *)
(***************************************************************************)
StrV(s) == [t |-> "str", v |-> s]
\* an int, held as its decimal digits
IntV(digits) == [t |-> "int", v |-> digits]

\* Python's == between a string and a listed value: a string never equals an int
StrEq(s, val) == val.t = "str" /\ val.v = s

ProviderSizes == << [slug |-> <<"s">>], [slug |-> <<"b">>] >>

ProviderImages ==
    << [id |-> IntV(<<"7">>), name |-> <<"i">>, slug |-> <<"u">>],
       [id |-> IntV(<<"8">>), name |-> <<"j">>, slug |-> None] >>

ProviderRegions == << [name |-> <<"N">>, slug |-> <<"n">>] >>

ProviderKeys == << [id |-> IntV(<<"3">>), name |-> <<"k">>] >>

\* the dict a listing loop builds: one entry per key, the last item with that key
DictOf(items, key) ==
    [k \in {items[i][key] : i \in DOMAIN items} |->
        LET last == CHOOSE i \in DOMAIN items :
                        /\ items[i][key] = k
                        /\ \A j \in DOMAIN items : items[j][key] = k => j <= i
        IN items[last]]

avail_sizes(items) == DictOf(items, "slug")

avail_images(items) == DictOf(items, "name")

avail_locations(items) == DictOf(items, "name")

\* the outcome of a resolver: the value it returns, or the exception it raises
Found(v) == [ok |-> TRUE, v |-> v, exc |-> NoExc]
Fails(e) == [ok |-> FALSE, v |-> StrV(None), exc |-> e]
NotFound == Fails(Exc("SaltCloudNotFound", "notfound"))

\* get_size: the outcomes its scan of the dict can have (the dict's order is not fixed)
get_size(sizes, vm_size) ==
    LET hits == {size \in DOMAIN sizes : Lower(vm_size) = sizes[size].slug}
    IN IF hits = {} THEN {NotFound} ELSE {Found(StrV(sizes[size].slug)) : size \in hits}

get_image(images, vm_image) ==
    LET hits == {image \in DOMAIN images :
                    \/ vm_image = images[image].name
                    \/ vm_image = images[image].slug
                    \/ StrEq(vm_image, images[image].id)}
    IN IF hits = {} THEN {NotFound}
       ELSE {IF images[image].slug # None THEN Found(StrV(images[image].slug))
             ELSE Found(images[image].id) : image \in hits}

\* get_location with the failure dropped: an unmatched selector yields None
get_location_lenient(locations, vm_location) ==
    LET hits == {location \in DOMAIN locations :
                    \/ vm_location = locations[location].name
                    \/ vm_location = locations[location].slug}
    IN IF hits = {} THEN {Found(StrV(None))}
       ELSE {Found(StrV(locations[location].slug)) : location \in hits}

get_location(locations, vm_location) ==
    LET hits == {location \in DOMAIN locations :
                    \/ vm_location = locations[location].name
                    \/ vm_location = locations[location].slug}
    IN IF hits = {} THEN {NotFound} ELSE {Found(StrV(locations[location].slug)) : location \in hits}

\* list_keypairs: the dict of key pairs by name, or the exception on a duplicate name
list_keypairs(items) ==
    IF \E i, j \in DOMAIN items : i < j /\ items[i].name = items[j].name
    THEN Fails(Exc("SaltCloudSystemExit", "duplicate key pair"))
    ELSE Found(DictOf(items, "name"))

\* get_keyid with dict.get in place of the subscript of line 721: a name that is not
\* listed yields None
get_keyid_lenient(items, keyname) ==
    LET keypairs == list_keypairs(items)
    IN IF ~keypairs.ok THEN Fails(keypairs.exc)
       ELSE IF keyname \notin DOMAIN keypairs.v THEN Found(StrV(None))
       ELSE IF keypairs.v[keyname].id.v # <<>> THEN Found(StrV(keypairs.v[keyname].id.v))
       ELSE Fails(Exc("SaltCloudNotFound", "ssh key"))

\* get_keyid on the listed key pairs (keyname is not empty)
get_keyid(items, keyname) ==
    LET keypairs == list_keypairs(items)
    IN IF ~keypairs.ok THEN Fails(keypairs.exc)
       ELSE IF keyname \notin DOMAIN keypairs.v THEN Fails(Exc("KeyError", "keyname"))
       ELSE IF keypairs.v[keyname].id.v # <<>> THEN Found(StrV(keypairs.v[keyname].id.v))
       ELSE Fails(Exc("SaltCloudNotFound", "ssh key"))

(***************************************************************************)
(* Machine requests (vm_) and the names destroy is called with.            *)
(***************************************************************************)
\* a request that passes every check of create
BaseVm ==
    [name |-> <<"w", ".", "e", ".", "c">>,
     size |-> <<"s">>, image |-> <<"i">>, location |-> <<"n">>,
     ssh_key_name |-> None, ssh_key_names |-> <<"k">>, ssh_key_file |-> <<"x">>,
     private_networking |-> "None", backups_enabled |-> "None", ipv6 |-> "None",
     create_dns_record |-> FALSE, dns_hostname |-> None, dns_domain |-> None,
     ssh_host |-> None,
     wait_for_ip_timeout |-> 1, wait_for_ip_interval |-> 1]

\* machine names: three labels, four labels, one label, two labels
Names ==
    { <<"w", ".", "e", ".", "c">>, <<"w", ".", "u", ".", "e", ".", "c">>,
      <<"w">>, <<"w", ".", "e">> }

\* the requests create is run with: the base request with its name, DNS-sync flag and
\* polling budget varied together, and with every other setting varied on its own
Vms ==
    {[BaseVm EXCEPT !.name = n, !.create_dns_record = d, !.wait_for_ip_timeout = t] :
        n \in Names, d \in BOOLEAN, t \in 1..MaxWaitTimeout}
    \cup {[BaseVm EXCEPT !.size = x] : x \in {<<"S">>, <<"z">>}}
    \cup {[BaseVm EXCEPT !.image = x] : x \in {<<"u">>, <<"7">>, <<"z">>}}
    \cup {[BaseVm EXCEPT !.location = x] : x \in {<<"N">>, <<"z">>}}
    \cup {[BaseVm EXCEPT !.ssh_key_name = x] : x \in {<<"k">>, <<"z">>}}
    \cup {[BaseVm EXCEPT !.ssh_key_names = x] : x \in {None, <<"k", ",", "z">>, <<"k", ",">>}}
    \cup {[BaseVm EXCEPT !.ssh_key_file = x] : x \in {None, <<"m">>}}
    \cup {[BaseVm EXCEPT !.private_networking = x] : x \in {"True", "yes"}}
    \cup {[BaseVm EXCEPT !.backups_enabled = x] : x \in {"False", "yes"}}
    \cup {[BaseVm EXCEPT !.ipv6 = x] : x \in {"True", "yes"}}
    \cup {[BaseVm EXCEPT !.create_dns_record = TRUE, !.name = n,
                         !.dns_hostname = h, !.dns_domain = d] :
            n \in {<<"w">>, <<"w", ".", "e">>, <<"w", ".", "e", ".", "c">>},
            h \in {None, <<"h">>}, d \in {None, <<"d", ".", "c">>}}
    \cup {[BaseVm EXCEPT !.ssh_host = <<"9">>]}

\* os.path.isfile: of the key files of the model, only "x" exists
isfile(path) == path = <<"x">>

\* isinstance(value, bool) for a flag of the request
IsBool(flag) == flag \in {"True", "False"}

(***************************************************************************)
(* Droplets as the node listing shows them.                                *)
(***************************************************************************)
Net(type, ip) == [type |-> type, ip_address |-> ip]

\* the address sets a listed droplet can carry
Networks ==
    { [v4 |-> <<>>, v6 |-> <<>>],
      [v4 |-> <<Net("private", <<"1">>)>>, v6 |-> <<>>],
      [v4 |-> <<Net("public", <<"4">>)>>, v6 |-> <<>>],
      [v4 |-> <<>>, v6 |-> <<Net("public", <<"6">>)>>],
      [v4 |-> <<Net("private", <<"1">>), Net("public", <<"4">>)>>,
       v6 |-> <<Net("public", <<"6">>)>>] }

\* the ids the provider gives droplets; 0 stands for no id
DropletIds == {5}

\* what a lookup by name yields: the listed droplet, or the empty dict
Node(id, networks) == [found |-> TRUE, id |-> id, networks |-> networks]
EmptyNode == [found |-> FALSE, id |-> 0, networks |-> [v4 |-> <<>>, v6 |-> <<>>]]

\* what one fetch of the node listing can answer about a name: an HTTP error, a
\* listing without the name, or a listing with it
ListAnswers ==
    {[kind |-> "error", node |-> EmptyNode], [kind |-> "absent", node |-> EmptyNode]}
    \cup {[kind |-> "listed", node |-> Node(id, n)] : id \in DropletIds, n \in Networks}

\* a network list of a droplet holds an address tagged public
HasPublic(nets) == \E i \in DOMAIN nets : nets[i].type = "public"

(***************************************************************************)
(* DNS zones as the provider returns them.                                 *)
(***************************************************************************)
Rec(id, name, type) == [id |-> id, name |-> name, type |-> type]

\* the record lists GET domains/<domain>/records can answer with
Zones ==
    { <<>>,
      <<Rec(3, <<"o">>, "A")>>,
      <<Rec(1, <<"w">>, "A"), Rec(3, <<"o">>, "A")>>,
      <<Rec(1, <<"w">>, "A"), Rec(2, <<"w">>, "TXT"), Rec(3, <<"o">>, "A"),
        Rec(7, <<"w">>, "AAAA")>>,
      <<Rec(3, <<"o">>, "A"), Rec(4, <<>>, "NS"), Rec(2, <<"w">>, "TXT"),
        Rec(6, <<"w", ".", "u">>, "AAAA")>> }

\* _get_node: attempts = 10
GetNodeAttempts == 10

(***************************************************************************)
(* State.                                                                  *)
(***************************************************************************)
VARIABLES
    op,          \* the operation run: "create" or "destroy" (or one function, run alone)
    vm,          \* create's vm_ (destroy is called with vm.name)
    pc,          \* the position of the run
    kwargs,      \* create's payload for the droplet-create call
    todo,        \* the SSH key names create has still to resolve
    dns,         \* create's dns_hostname and dns_domain
    calls,       \* the remote calls issued so far, in order (see Logged)
    attempts,    \* _get_node's attempts (0 outside _get_node)
    ctx,         \* the caller of show_instance: "poll" or "destroy"
    remaining,   \* wait_for_ip's remaining budget
    data,        \* the droplet show_instance returned last
    exc,         \* the exception create's except clause caught
    node,        \* destroy's result of the droplet delete call
    record_ids,  \* destroy_dns_records: the record ids still to delete
    retBound,    \* destroy_dns_records: whether its local ret is bound
    addrs,       \* create: the (facing, family, address) triples still to visit
    ssh_host,    \* create's vm_['ssh_host']
    bootstrap,   \* the address handed to the bootstrap collaborator (None: no handoff)
    result,      \* the result of the run
    hist,        \* what happened in the run, for the properties
    fn           \* the inputs, locals and outcome of a function run alone

vars == <<op, vm, pc, kwargs, todo, dns, calls, attempts, ctx, remaining, data, exc,
          node, record_ids, retBound, addrs, ssh_host, bootstrap, result, hist, fn>>

reqVars == <<op, vm, fn>>
buildVars == <<kwargs, todo, dns>>
pollVars == <<attempts, ctx, remaining, data>>
destroyVars == <<exc, node, record_ids, retBound>>
tailVars == <<addrs, ssh_host, bootstrap>>

NoHist ==
    [npolls |-> 0,            \* the polls completed
     lastPoll |-> EmptyNode,  \* the droplet the last completed poll saw
     lastReady |-> FALSE,     \* whether the last completed poll succeeded
     everPublic |-> FALSE,    \* some completed poll saw a public address (either family)
     postFailed |-> FALSE,    \* the droplet-create call failed
     created |-> 0,           \* the id of the droplet the create call made (0: none)
     timedOut |-> FALSE,      \* wait_for_ip raised its timeout
     pollRaised |-> FALSE,    \* a poll raised another exception
     destroyExc |-> NoExc,    \* the exception that ended destroy, if one did
     deleted |-> FALSE,       \* destroy's droplet delete call succeeded
     zone |-> <<>>,           \* the records destroy_dns_records fetched
     fetched |-> FALSE,       \* destroy_dns_records fetched the records
     failedIds |-> {},        \* the record ids whose delete call failed
     posted |-> <<>>,         \* the bodies of the record create calls issued, in order
     missing |-> "none",      \* post_dns_record on a domain the provider does not have:
                              \* "raised" or "skipped" ("none": no such domain read)
     handoffs |-> 0,          \* the calls of the bootstrap collaborator
     writeFailed |-> FALSE]   \* a record create call of post_dns_record raised

\* no function is run alone
NoFn == [name |-> "none"]

\* create's kwargs before the resolvers have run
EmptyKwargs ==
    [size |-> StrV(None), image |-> StrV(None), region |-> StrV(None),
     ssh_keys |-> <<>>, private_networking |-> "None", backups |-> "None", ipv6 |-> "None"]

Init ==
    /\ op \in {"create", "destroy"}
    /\ vm \in Vms
    /\ op = "destroy" => vm \in {[BaseVm EXCEPT !.name = n] : n \in Names}
    /\ pc = IF op = "create" THEN "get_size" ELSE "_get_node"
    /\ fn = NoFn
    /\ kwargs = EmptyKwargs
    /\ todo = <<>>
    /\ dns = [hostname |-> None, domain |-> None]
    /\ calls = <<>>
    /\ attempts = IF op = "create" THEN 0 ELSE GetNodeAttempts
    /\ ctx = IF op = "create" THEN "none" ELSE "destroy"
    /\ remaining = 0
    /\ data = EmptyNode
    /\ exc = NoExc
    /\ node = "none"
    /\ record_ids = <<>>
    /\ retBound = FALSE
    /\ addrs = <<>>
    /\ ssh_host = None
    /\ bootstrap = None
    /\ result = Running
    /\ hist = NoHist

(***************************************************************************)
(* create: resolving the selectors and the SSH keys (lines 302-324).       *)
(***************************************************************************)
\* the log after call c: every call is appended, except a read that repeats the call
\* logged last (the fetches of one lookup are logged once)
Logged(c) ==
    IF c.verb = "GET" /\ calls # <<>> /\ calls[Len(calls)] = c THEN calls
    ELSE Append(calls, c)

\* the run ends by raising e
Fail(e) == result' = Raised(e) /\ pc' = "done"

\* kwargs['size'] = get_size(vm_): one GET of the sizes, then the scan
GetSize ==
    /\ op = "create" /\ pc = "get_size"
    /\ calls' = Logged(Call("GET", "sizes", 0, None))
    /\ \E ok \in BOOLEAN :
         IF ~ok THEN Fail(HttpError) /\ UNCHANGED kwargs
         ELSE \E r \in get_size(avail_sizes(ProviderSizes), vm.size) :
                IF r.ok
                THEN kwargs' = [kwargs EXCEPT !.size = r.v]
                     /\ pc' = "get_image" /\ UNCHANGED result
                ELSE Fail(r.exc) /\ UNCHANGED kwargs
    /\ UNCHANGED <<reqVars, todo, dns, pollVars, destroyVars, tailVars, hist>>

\* kwargs['image'] = get_image(vm_)
GetImage ==
    /\ op = "create" /\ pc = "get_image"
    /\ calls' = Logged(Call("GET", "images", 0, None))
    /\ \E ok \in BOOLEAN :
         IF ~ok THEN Fail(HttpError) /\ UNCHANGED kwargs
         ELSE \E r \in get_image(avail_images(ProviderImages), vm.image) :
                IF r.ok
                THEN kwargs' = [kwargs EXCEPT !.image = r.v]
                     /\ pc' = "get_location" /\ UNCHANGED result
                ELSE Fail(r.exc) /\ UNCHANGED kwargs
    /\ UNCHANGED <<reqVars, todo, dns, pollVars, destroyVars, tailVars, hist>>

\* the key names create resolves, in order: ssh_key_name, then ssh_key_names.split(',')
KeyNames(vm_) ==
    (IF Truthy(vm_.ssh_key_name) THEN <<vm_.ssh_key_name>> ELSE <<>>)
    \o (IF Truthy(vm_.ssh_key_names) THEN SplitOn(",", vm_.ssh_key_names) ELSE <<>>)

\* kwargs['region'] = get_location(vm_)
GetLocation ==
    /\ op = "create" /\ pc = "get_location"
    /\ calls' = Logged(Call("GET", "regions", 0, None))
    /\ \E ok \in BOOLEAN :
         IF ~ok THEN Fail(HttpError) /\ UNCHANGED <<kwargs, todo>>
         ELSE \E r \in get_location(avail_locations(ProviderRegions), vm.location) :
                IF r.ok
                THEN kwargs' = [kwargs EXCEPT !.region = r.v]
                     /\ todo' = KeyNames(vm)
                     /\ pc' = "get_keyid" /\ UNCHANGED result
                ELSE Fail(r.exc) /\ UNCHANGED <<kwargs, todo>>
    /\ UNCHANGED <<reqVars, dns, pollVars, destroyVars, tailVars, hist>>

\* kwargs['ssh_keys'].append(get_keyid(key)) for the next key name; an empty name
\* yields None without a remote call
GetKeyid ==
    /\ op = "create" /\ pc = "get_keyid" /\ todo # <<>>
    /\ IF Head(todo) = <<>>
       THEN /\ kwargs' = [kwargs EXCEPT !.ssh_keys = Append(@, StrV(None))]
            /\ todo' = Tail(todo)
            /\ UNCHANGED <<pc, calls, result>>
       ELSE /\ calls' = Logged(Call("GET", "account/keys", 0, None))
            /\ \E ok \in BOOLEAN :
                 LET r == IF ok THEN get_keyid(ProviderKeys, Head(todo)) ELSE Fails(HttpError)
                 IN IF r.ok
                    THEN /\ kwargs' = [kwargs EXCEPT !.ssh_keys = Append(@, r.v)]
                         /\ todo' = Tail(todo)
                         /\ UNCHANGED <<pc, result>>
                    ELSE Fail(r.exc) /\ UNCHANGED <<kwargs, todo>>
    /\ UNCHANGED <<reqVars, dns, pollVars, destroyVars, tailVars, hist>>

(***************************************************************************)
(* create: the local checks and the DNS names (lines 326-401).             *)
(***************************************************************************)
ConfigError(msg) == Exc("SaltCloudConfigError", msg)

\* the first of the checks of lines 330-368 that fails, or NoExc
LocalCheck(vm_) ==
    IF vm_.ssh_key_file # None /\ ~isfile(vm_.ssh_key_file) THEN ConfigError("key file missing")
    ELSE IF vm_.ssh_key_file = None THEN ConfigError("no key file")
    ELSE IF vm_.private_networking # "None" /\ ~IsBool(vm_.private_networking)
         THEN ConfigError("private_networking")
    ELSE IF vm_.backups_enabled # "None" /\ ~IsBool(vm_.backups_enabled)
         THEN ConfigError("backups_enabled")
    ELSE IF vm_.ipv6 # "None" /\ ~IsBool(vm_.ipv6) THEN ConfigError("ipv6")
    ELSE NoExc

\* config.get_cloud_config_value(key, ..., default=d): the setting, or d when unset
ConfigValue(setting, default) == IF setting = None THEN default ELSE setting

\* lines 376-384 with the hostname taken as the first label whatever the number of labels
DefaultDnsNames_firstLabel(vmname) ==
    LET dns_domain_name == Split(vmname)
    IN IF Len(dns_domain_name) > 2
       THEN [hostname |-> dns_domain_name[1], domain |-> Join(LastTwo(dns_domain_name))]
       ELSE [hostname |-> dns_domain_name[1], domain |-> None]

\* lines 376-384: default_dns_hostname and default_dns_domain from the name
DefaultDnsNames(vmname) ==
    LET dns_domain_name == Split(vmname)
    IN IF Len(dns_domain_name) > 2
       THEN [hostname |-> Join(AllButLastTwo(dns_domain_name)),
             domain |-> Join(LastTwo(dns_domain_name))]
       ELSE [hostname |-> dns_domain_name[1], domain |-> None]

\* lines 374-394 without the check of lines 396-401: whatever names result are used
DnsNames_unchecked(vm_) ==
    LET d == DefaultDnsNames(vm_.name)
    IN Found([hostname |-> ConfigValue(vm_.dns_hostname, d.hostname),
              domain |-> ConfigValue(vm_.dns_domain, d.domain)])

\* lines 374-401: dns_hostname and dns_domain, or the configuration error
DnsNames(vm_) ==
    LET d == DefaultDnsNames(vm_.name)
        dns_hostname == ConfigValue(vm_.dns_hostname, d.hostname)
        dns_domain == ConfigValue(vm_.dns_domain, d.domain)
    IN IF Truthy(dns_hostname) /\ Truthy(dns_domain)
       THEN Found([hostname |-> dns_hostname, domain |-> dns_domain])
       ELSE Fails(ConfigError("create_dns_record"))

\* lines 326-401, run once every key name is resolved: no remote call
Configure ==
    /\ op = "create" /\ pc = "get_keyid" /\ todo = <<>>
    /\ LET e == LocalCheck(vm)
           n == IF vm.create_dns_record THEN DnsNames(vm)
                ELSE Found([hostname |-> None, domain |-> None])
       IN IF e # NoExc THEN Fail(e) /\ UNCHANGED <<kwargs, dns>>
          ELSE IF ~n.ok THEN Fail(n.exc) /\ UNCHANGED <<kwargs, dns>>
          ELSE /\ kwargs' = [kwargs EXCEPT !.private_networking = vm.private_networking,
                                           !.backups = vm.backups_enabled,
                                           !.ipv6 = vm.ipv6]
               /\ dns' = n.v
               /\ pc' = "create_node"
               /\ UNCHANGED result
    /\ UNCHANGED <<reqVars, todo, calls, pollVars, destroyVars, tailVars, hist>>

(***************************************************************************)
(* create: the droplet-create call (lines 411-424).                        *)
(***************************************************************************)
\* show_instance(name) starts _get_node for caller c
EnterGetNode(c) == attempts' = GetNodeAttempts /\ ctx' = c /\ pc' = "_get_node"

\* create_node inside the try of the polling: a failed create call is followed by the
\* compensating destroy
CreateNode_cleanup ==
    /\ op = "create" /\ pc = "create_node"
    /\ calls' = Logged(Call("POST", "droplets", 0, None))
    /\ \E ok \in BOOLEAN :
         IF ~ok
         THEN /\ hist' = [hist EXCEPT !.postFailed = TRUE]
              /\ exc' = HttpError
              /\ EnterGetNode("destroy")
              /\ UNCHANGED <<remaining, result>>
         ELSE /\ \E id \in DropletIds : hist' = [hist EXCEPT !.created = id]
              /\ remaining' = vm.wait_for_ip_timeout
              /\ EnterGetNode("poll")
              /\ UNCHANGED <<result, exc>>
    /\ UNCHANGED <<reqVars, buildVars, data, node, record_ids, retBound, tailVars>>

\* ret = create_node(kwargs); any exception is logged and create returns False
CreateNode ==
    /\ op = "create" /\ pc = "create_node"
    /\ calls' = Logged(Call("POST", "droplets", 0, None))
    /\ \E ok \in BOOLEAN :
         IF ~ok
         THEN /\ result' = Returned("False") /\ pc' = "done"
              /\ hist' = [hist EXCEPT !.postFailed = TRUE]
              /\ UNCHANGED <<attempts, ctx, remaining>>
         ELSE /\ \E id \in DropletIds : hist' = [hist EXCEPT !.created = id]
              /\ remaining' = vm.wait_for_ip_timeout
              /\ EnterGetNode("poll")
              /\ UNCHANGED result
    /\ UNCHANGED <<reqVars, buildVars, data, destroyVars, tailVars>>

(***************************************************************************)
(* create: waiting for the address (lines 426-453), and the handling of    *)
(* what wait_for_ip raises.                                                *)
(***************************************************************************)
TimeoutExc == Exc("SaltCloudExecutionTimeout", "timeout")

\* __query_node_data without the checks of the networks: any droplet found is returned
query_node_data_any(d) == d.found

\* __query_node_data: TRUE when it returns data, FALSE when it returns False
query_node_data(d) ==
    /\ d.found
    /\ d.networks.v4 # <<>>
    /\ HasPublic(d.networks.v4)

\* salt.utils.cloud.wait_for_ip: after a poll that was not ready, the budget is spent
wait_for_ip_expired(budget) == budget <= 0

\* salt.utils.cloud.wait_for_ip: what leaves it when update_callback raises e
wait_for_ip_raises(e) == e

\* create's except clause of line 446 catches e
Catches(e) == e.type \in {"SaltCloudExecutionTimeout", "SaltCloudExecutionFailure"}

\* the raise of line 453 placed after the try statement instead of in its finally clause:
\* an exception of destroy that the except clause does not catch leaves create
CompensationRaise_noFinally(caught, d) ==
    IF d # NoExc /\ d.type # "SaltCloudSystemExit" THEN d
    ELSE Exc("SaltCloudSystemExit", caught.msg)

\* lines 446-453: what create raises once the destroy it started has ended, by raising
\* d or by returning (d = NoExc); the raise of the finally clause replaces either
CompensationRaise(caught, d) == Exc("SaltCloudSystemExit", caught.msg)

\* wait_for_ip raised e inside create's try: destroy(vm_['name']) if the clause catches
\* it, else e leaves create
AfterWaitForIpRaise(e) ==
    IF Catches(e)
    THEN exc' = e /\ EnterGetNode("destroy") /\ UNCHANGED result
    ELSE Fail(e) /\ UNCHANGED <<exc, attempts, ctx>>

\* destroy ends by raising e: it is the result of a destroy run, and inside create it is
\* swallowed or replaced by the finally clause
DestroyRaise(e, h) ==
    /\ hist' = [h EXCEPT !.destroyExc = e]
    /\ IF op = "destroy" THEN Fail(e) ELSE Fail(CompensationRaise(exc, e))

\* destroy returns v
DestroyReturn(v) ==
    IF op = "destroy" THEN result' = Returned(v) /\ pc' = "done"
    ELSE Fail(CompensationRaise(exc, NoExc))

\* the node listing fetched with the verb of a write
list_nodes_call_post == Call("POST", "droplets", 0, None)

\* _list_nodes: the call of one fetch of the node listing, query(method='droplets', ...)
\* with query's default http_method
list_nodes_call == Call("GET", "droplets", 0, None)

\* _get_node: one fetch of the node listing (list_nodes_full) and the lookup of the name
GetNode ==
    /\ pc = "_get_node"
    /\ calls' = Logged(list_nodes_call)
    /\ \E a \in ListAnswers :
         CASE a.kind = "error" ->
                IF ctx = "poll"
                THEN /\ hist' = [hist EXCEPT !.pollRaised = TRUE]
                     /\ AfterWaitForIpRaise(wait_for_ip_raises(HttpError))
                     /\ UNCHANGED data
                ELSE /\ DestroyRaise(HttpError, hist)
                     /\ UNCHANGED <<attempts, ctx, data, exc>>
           [] a.kind = "listed" ->
                /\ data' = a.node
                /\ attempts' = 0
                /\ pc' = IF ctx = "poll" THEN "__query_node_data" ELSE "destroy"
                /\ UNCHANGED <<ctx, exc, result, hist>>
           [] a.kind = "absent" ->
                /\ IF attempts - 1 >= 0
                   THEN attempts' = attempts - 1 /\ UNCHANGED <<pc, data>>
                   ELSE /\ attempts' = 0
                        /\ data' = EmptyNode
                        /\ pc' = IF ctx = "poll" THEN "__query_node_data" ELSE "destroy"
                /\ UNCHANGED <<ctx, exc, result, hist>>
    /\ UNCHANGED <<reqVars, buildVars, remaining, node, record_ids, retBound, tailVars>>

\* lines 461-463: the (facing, family, address) triples, v4 before v6
AddrTriples(networks) ==
    [i \in 1..Len(networks.v4) |->
        [facing |-> networks.v4[i].type, family |-> "v4", ip |-> networks.v4[i].ip_address]]
    \o [i \in 1..Len(networks.v6) |->
        [facing |-> networks.v6[i].type, family |-> "v6", ip |-> networks.v6[i].ip_address]]

\* the verdict of one poll, and wait_for_ip's step after it: return the data, sleep and
\* poll again, or raise the timeout
QueryNodeData ==
    /\ op = "create" /\ pc = "__query_node_data"
    /\ LET ready == query_node_data(data)
           h == [hist EXCEPT !.npolls = @ + 1, !.lastPoll = data, !.lastReady = ready,
                             !.everPublic = @ \/ (data.found /\
                                 (HasPublic(data.networks.v4) \/ HasPublic(data.networks.v6)))]
       IN IF ready
          THEN /\ hist' = h
               /\ addrs' = AddrTriples(data.networks)
               /\ ssh_host' = IF Truthy(vm.ssh_host) THEN vm.ssh_host ELSE None
               /\ pc' = "addr_loop"
               /\ UNCHANGED <<attempts, ctx, remaining, exc, result>>
          ELSE IF wait_for_ip_expired(remaining)
          THEN /\ hist' = [h EXCEPT !.timedOut = TRUE]
               /\ AfterWaitForIpRaise(TimeoutExc)
               /\ UNCHANGED <<remaining, addrs, ssh_host>>
          ELSE /\ hist' = h
               /\ remaining' = remaining - vm.wait_for_ip_interval
               /\ EnterGetNode("poll")
               /\ UNCHANGED <<exc, result, addrs, ssh_host>>
    /\ UNCHANGED <<reqVars, buildVars, calls, data, node, record_ids, retBound, bootstrap>>

(***************************************************************************)
(* destroy (lines 751-792) and destroy_dns_records (lines 842-868).        *)
(***************************************************************************)
\* destroy_dns_records: domain and hostname of an fqdn (lines 846-847)
DestroyDomain(fqdn) == Join(LastTwo(Split(fqdn)))
DestroyHostname(fqdn) == Join(AllButLastTwo(Split(fqdn)))

\* r['name'].decode(): the record names of the model are ASCII, which decode leaves as
\* they are
decode(s) == s

\* line 853: the ids of the records whose name equals the hostname, in listing order
RECURSIVE RecordIds(_, _)
RecordIds(records, hostname) ==
    IF records = <<>> THEN <<>>
    ELSE (IF decode(Head(records).name) = hostname THEN <<Head(records).id>> ELSE <<>>)
         \o RecordIds(Tail(records), hostname)

\* destroy with the delete call in a try statement that logs the error: the cleanup of
\* the DNS records follows a failed delete call too
DestroyDelete_tolerant ==
    /\ pc = "destroy"
    /\ IF ~data.found
       THEN /\ DestroyRaise(Exc("KeyError", "id"), hist)
            /\ UNCHANGED <<calls, node>>
       ELSE /\ calls' = Logged(Call("DELETE", "droplets", data.id, None))
            /\ \E ok \in BOOLEAN :
                 /\ node' = IF ok THEN "True" ELSE node
                 /\ hist' = [hist EXCEPT !.deleted = @ \/ ok]
                 /\ pc' = "destroy_dns_records"
                 /\ UNCHANGED result
    /\ UNCHANGED <<reqVars, buildVars, pollVars, exc, record_ids, retBound, tailVars>>

\* lines 751-752: data['id'] of the droplet looked up, then the droplet delete call
DestroyDelete ==
    /\ pc = "destroy"
    /\ IF ~data.found
       THEN /\ DestroyRaise(Exc("KeyError", "id"), hist)
            /\ UNCHANGED <<calls, node>>
       ELSE /\ calls' = Logged(Call("DELETE", "droplets", data.id, None))
            /\ \E ok \in BOOLEAN :
                 IF ~ok
                 THEN DestroyRaise(HttpError, hist) /\ UNCHANGED node
                 ELSE /\ node' = "True"
                      /\ hist' = [hist EXCEPT !.deleted = TRUE]
                      /\ pc' = "destroy_dns_records"
                      /\ UNCHANGED result
    /\ UNCHANGED <<reqVars, buildVars, pollVars, exc, record_ids, retBound, tailVars>>

\* lines 846-854: the fetch of the domain's records and the selection of the ids; with
\* nothing to delete, destroy_dns_records returns and destroy returns node
DnsRecords ==
    /\ pc = "destroy_dns_records"
    /\ calls' = Logged(Call("GET", "records", 0, DestroyDomain(vm.name)))
    /\ \E ok \in BOOLEAN :
         IF ~ok
         THEN DestroyRaise(HttpError, hist) /\ UNCHANGED <<record_ids, retBound>>
         ELSE \E records \in Zones :
                LET ids == IF records # <<>>
                           THEN RecordIds(records, DestroyHostname(vm.name)) ELSE <<>>
                IN /\ hist' = [hist EXCEPT !.fetched = TRUE, !.zone = records]
                   /\ record_ids' = ids
                   /\ retBound' = FALSE
                   /\ IF ids = <<>> THEN DestroyReturn(node)
                      ELSE pc' = "dns_delete" /\ UNCHANGED result
    /\ UNCHANGED <<reqVars, buildVars, pollVars, exc, node, tailVars>>

\* lines 855-866: the delete call for the next record id; a SaltCloudSystemExit is
\* logged, and line 866 then reads ret, which is unbound unless an earlier call returned
DnsDelete ==
    /\ pc = "dns_delete" /\ record_ids # <<>>
    /\ calls' = Logged(Call("DELETE", "records", Head(record_ids),
                                   DestroyDomain(vm.name)))
    /\ \E ok \in BOOLEAN :
         LET h == IF ok THEN hist
                  ELSE [hist EXCEPT !.failedIds = @ \cup {Head(record_ids)}]
         IN IF ~ok /\ ~retBound
            THEN /\ DestroyRaise(Exc("UnboundLocalError", "ret"), h)
                 /\ UNCHANGED <<record_ids, retBound>>
            ELSE /\ hist' = h
                 /\ retBound' = (retBound \/ ok)
                 /\ record_ids' = Tail(record_ids)
                 /\ IF Tail(record_ids) = <<>> THEN DestroyReturn(node)
                    ELSE UNCHANGED <<pc, result>>
    /\ UNCHANGED <<reqVars, buildVars, pollVars, exc, node, tailVars>>

(***************************************************************************)
(* create: the DNS records, the bootstrap address and the handoff          *)
(* (lines 455-502), and post_dns_record (lines 795-811).                   *)
(***************************************************************************)
\* arec_map with both families mapped to A
RecType_allA(family) == "A"

\* arec_map: the record type of an address family
RecType(family) == IF family = "v4" THEN "A" ELSE "AAAA"

\* lines 469-470 without the test of line 469: every public address replaces ssh_host
NextSshHost_latest(host, ip) == ip

\* lines 469-470: the first public address becomes ssh_host unless one is set
NextSshHost(host, ip) == IF Truthy(host) THEN host ELSE ip

\* lines 461-470 for a triple that needs no remote call: a private address, or a public
\* one without DNS-sync
AddrLoop ==
    /\ op = "create" /\ pc = "addr_loop" /\ addrs # <<>>
    /\ LET a == Head(addrs)
       IN IF a.facing = "public" /\ vm.create_dns_record
          THEN pc' = "post_dns_record" /\ UNCHANGED <<addrs, ssh_host>>
          ELSE /\ ssh_host' = IF a.facing = "public" THEN NextSshHost(ssh_host, a.ip)
                              ELSE ssh_host
               /\ addrs' = Tail(addrs)
               /\ UNCHANGED pc
    /\ UNCHANGED <<reqVars, buildVars, calls, pollVars, destroyVars, bootstrap, result, hist>>

\* the statuses GET domains/<domain> answers with: the domain, no such domain, a
\* provider failure
DomainAnswers == {200, 404, 500}

\* the body of the record create call of lines 801-809, with the domain of its path
RecordBody(domain, name, type, record_data) ==
    [domain |-> domain, name |-> name, type |-> type, data |-> record_data]

\* post_dns_record, line 799: the read of the domain through query, which raises on a
\* status above 299 (lines 536-544), so that an error or a missing domain leaves create;
\* the body of a domain that exists is truthy (line 801)
PostDnsGet ==
    /\ op = "create" /\ pc = "post_dns_record"
    /\ calls' = Logged(Call("GET", "domains", 0, dns.domain))
    /\ \E status \in DomainAnswers :
         IF status > StatusLimit
         THEN /\ Fail(HttpError)
              /\ hist' = IF status = 404 THEN [hist EXCEPT !.missing = "raised"] ELSE hist
         ELSE pc' = "post_dns_record_post" /\ UNCHANGED <<result, hist>>
    /\ UNCHANGED <<reqVars, buildVars, pollVars, destroyVars, tailVars>>

\* post_dns_record called inside the try statement of the waiting: a failed record
\* create call is followed by the compensating destroy
PostDnsPost_compensated ==
    /\ op = "create" /\ pc = "post_dns_record_post"
    /\ calls' = Logged(Call("POST", "records", 0, dns.domain))
    /\ \E ok \in BOOLEAN :
         /\ hist' = [hist EXCEPT !.writeFailed = ~ok, !.posted =
                         Append(@, RecordBody(dns.domain, dns.hostname,
                                              RecType(Head(addrs).family), Head(addrs).ip))]
         /\ IF ~ok
            THEN /\ exc' = Exc("SaltCloudExecutionFailure", HttpError.msg)
                 /\ EnterGetNode("destroy")
                 /\ UNCHANGED <<addrs, ssh_host, result>>
            ELSE /\ ssh_host' = NextSshHost(ssh_host, Head(addrs).ip)
                 /\ addrs' = Tail(addrs)
                 /\ pc' = "addr_loop"
                 /\ UNCHANGED <<result, exc, attempts, ctx>>
    /\ UNCHANGED <<reqVars, buildVars, remaining, data, node, record_ids, retBound, bootstrap>>

\* post_dns_record, lines 801-809: the record create call, then lines 469-470; what
\* query raises (lines 536-544) leaves post_dns_record and create
PostDnsPost ==
    /\ op = "create" /\ pc = "post_dns_record_post"
    /\ calls' = Logged(Call("POST", "records", 0, dns.domain))
    /\ \E ok \in BOOLEAN :
         /\ hist' = [hist EXCEPT !.writeFailed = ~ok, !.posted =
                         Append(@, RecordBody(dns.domain, dns.hostname,
                                              RecType(Head(addrs).family), Head(addrs).ip))]
         /\ IF ~ok THEN Fail(HttpError) /\ UNCHANGED <<addrs, ssh_host>>
            ELSE /\ ssh_host' = NextSshHost(ssh_host, Head(addrs).ip)
                 /\ addrs' = Tail(addrs)
                 /\ pc' = "addr_loop"
                 /\ UNCHANGED result
    /\ UNCHANGED <<reqVars, buildVars, pollVars, destroyVars, bootstrap>>

\* lines 472-502: without an address create raises; else the bootstrap handoff, whose
\* result with the instance data is create's result
Bootstrap ==
    /\ op = "create" /\ pc = "addr_loop" /\ addrs = <<>>
    /\ IF ssh_host = None
       THEN Fail(Exc("SaltCloudSystemExit", "no address")) /\ UNCHANGED <<bootstrap, hist>>
       ELSE /\ bootstrap' = ssh_host
            /\ hist' = [hist EXCEPT !.handoffs = @ + 1]
            /\ result' = Returned("ret")
            /\ pc' = "done"
    /\ UNCHANGED <<reqVars, buildVars, calls, pollVars, destroyVars, addrs, ssh_host>>

(***************************************************************************)
(* The specification: one run of create or of destroy.                     *)
(***************************************************************************)
Next ==
    \/ GetSize
    \/ GetImage
    \/ GetLocation
    \/ GetKeyid
    \/ Configure
    \/ CreateNode
    \/ GetNode
    \/ QueryNodeData
    \/ DestroyDelete
    \/ DnsRecords
    \/ DnsDelete
    \/ AddrLoop
    \/ PostDnsGet
    \/ PostDnsPost
    \/ Bootstrap

Spec == Init /\ [][Next]_vars

(***************************************************************************)
(* Functions run alone: the state of create and destroy stays as it is.    *)
(***************************************************************************)
runVars == <<kwargs, todo, dns, calls, attempts, ctx, remaining, data, exc, node,
             record_ids, retBound, addrs, ssh_host, bootstrap, result, hist>>

\* the state in which function name is about to be called on its own
Alone(name) ==
    /\ op = name /\ vm = BaseVm /\ pc = "call"
    /\ kwargs = EmptyKwargs /\ todo = <<>> /\ dns = [hostname |-> None, domain |-> None]
    /\ calls = <<>> /\ attempts = 0 /\ ctx = "none" /\ remaining = 0
    /\ data = EmptyNode /\ exc = NoExc /\ node = "none"
    /\ record_ids = <<>> /\ retBound = FALSE
    /\ addrs = <<>> /\ ssh_host = None /\ bootstrap = None
    /\ result = Running /\ hist = NoHist

(***************************************************************************)
(* query (lines 505-560), run alone on every response.                     *)
(***************************************************************************)
\* query, line 549: success without data
NoContent == 204

\* the status codes of the responses
Statuses == {200, 201, 204, 299, 300, 404, 500}

\* the http_method query is called with
HttpMethods == {"get", "post", "delete"}

\* decoded JSON: an object with its status and error_message members (None: no such
\* member), and what is no JSON
JsonDict(status, error_message) ==
    [t |-> "dict", status |-> status, error_message |-> error_message]
NotJson == [t |-> "invalid"]

\* the response texts
Texts ==
    {"{}", "{\"status\": \"ok\"}", "{\"status\": \"error\", \"error_message\": \"m\"}",
     "{\"status\": \"ERROR\", \"error_message\": \"m\"}", "{\"status\": \"Error\"}",
     "<html>"}

\* json.loads
loads(text) ==
    CASE text = "{}" -> JsonDict(None, None)
      [] text = "{\"status\": \"ok\"}" -> JsonDict(<<"o", "k">>, None)
      [] text = "{\"status\": \"error\", \"error_message\": \"m\"}" ->
             JsonDict(<<"e", "r", "r", "o", "r">>, <<"m">>)
      [] text = "{\"status\": \"ERROR\", \"error_message\": \"m\"}" ->
             JsonDict(<<"E", "R", "R", "O", "R">>, <<"m">>)
      [] text = "{\"status\": \"Error\"}" -> JsonDict(<<"E", "r", "r", "o", "r">>, None)
      [] OTHER -> NotJson

\* dict.get(key, default) on the member read
DictGet(member, default) == IF member = None THEN default ELSE member

\* query with the test of line 555 on the status member as it is, not lower-cased
query_exactCase(status_code, text) ==
    IF status_code > StatusLimit
    THEN Raised(Exc("SaltCloudSystemExit", [code |-> status_code, text |-> text]))
    ELSE IF status_code = NoContent THEN Returned("True")
    ELSE LET decoded == loads(text)
         IN IF decoded.t = "invalid" THEN Raised(Exc("ValueError", "json"))
            ELSE IF DictGet(decoded.status, <<>>) = <<"e", "r", "r", "o", "r">>
            THEN Raised(Exc("SaltCloudSystemExit", DictGet(decoded.error_message, <<"{", "}">>)))
            ELSE Returned(decoded)

\* lines 536-560: what query does with the response to its request
query(status_code, text) ==
    IF status_code > StatusLimit
    THEN Raised(Exc("SaltCloudSystemExit", [code |-> status_code, text |-> text]))
    ELSE IF status_code = NoContent THEN Returned("True")
    ELSE LET decoded == loads(text)
         IN IF decoded.t = "invalid" THEN Raised(Exc("ValueError", "json"))
            ELSE IF Lower(DictGet(decoded.status, <<>>)) = <<"e", "r", "r", "o", "r">>
            THEN Raised(Exc("SaltCloudSystemExit", DictGet(decoded.error_message, <<"{", "}">>)))
            ELSE Returned(decoded)

InitQuery ==
    /\ Alone("query")
    /\ fn \in [name : {"query"}, http_method : HttpMethods, status_code : Statuses,
                text : Texts, requests : {<<>>}, out : {Running}]

\* lines 534-560: the one call of the requester, and the handling of its response
Query ==
    /\ op = "query" /\ pc = "call"
    /\ fn' = [fn EXCEPT !.requests = Append(@, fn.http_method),
                        !.out = query(fn.status_code, fn.text)]
    /\ pc' = "done"
    /\ UNCHANGED <<op, vm, runVars>>

NextQuery == Query

SpecQuery == InitQuery /\ [][NextQuery]_vars

(***************************************************************************)
(* The paginated listings _list_nodes (lines 1153-1187), avail_images      *)
(* (lines 120-148) and list_floating_ips (lines 937-974), run alone on     *)
(* every collection the provider can hold.                                 *)
(***************************************************************************)
\* the most items a collection of the provider holds
MaxItems == 3

\* the method of the listing: _list_nodes, avail_images, list_floating_ips
ListMethods == {"droplets", "images", "floating_ips"}

\* the member of an item that the listing keys its dict by
KeyField(method) == IF method = "floating_ips" THEN "ip" ELSE "name"

\* the names of droplets and images, and the floating ips
ItemKeys == {<<"a">>, <<"b">>, <<"c">>}

\* an item of the provider, with its id and its name or ip
Item(method, id, key) ==
    IF method = "floating_ips" THEN [id |-> id, ip |-> key] ELSE [id |-> id, name |-> key]

\* the collections the provider can hold: droplets and images may share a name, a
\* floating ip is held once
Collections(method) ==
    {[i \in DOMAIN keys |-> Item(method, i, keys[i])] :
        keys \in {k \in UNION {[1..n -> ItemKeys] : n \in 0..MaxItems} :
                    method = "floating_ips" =>
                        \A i, j \in DOMAIN k : k[i] = k[j] => i = j}}

\* the links member of a page: absent, without pages, or with the keys of its pages, of
\* which those in falsy hold null or false
Links(present, pagesPresent, keys, falsy) ==
    [present |-> present,
     pages |-> [present |-> pagesPresent, keys |-> keys, falsy |-> falsy]]

\* the links of a last page: pages without next, pages whose next is null, no pages, no
\* links
LastLinks ==
    {Links(TRUE, TRUE, {"first", "prev"}, {}),
     Links(TRUE, TRUE, {"first", "prev", "next"}, {"next"}),
     Links(TRUE, FALSE, {}, {}), Links(FALSE, FALSE, {}, {})}

\* the pages a listing requests at most in the model
MaxPage == MaxItems + 2

\* the provider's answer to ?page=n&per_page=...: the items of that page, and the next
\* link on every page but the last; a page past the last is empty and has the links of
\* the last
PageAnswer(collection, per_page, last, n) ==
    LET from == (n - 1) * per_page + 1
        to == IF n * per_page < Len(collection) THEN n * per_page ELSE Len(collection)
    IN [items |-> SubSeq(collection, from, to),
        links |-> IF n * per_page < Len(collection)
                  THEN Links(TRUE, TRUE, {"next", "last"}, {}) ELSE last]

\* fetch = 'next' in items['links']['pages'], False on a KeyError
NextFetch(items) ==
    IF ~items.links.present \/ ~items.links.pages.present THEN FALSE
    ELSE "next" \in items.links.pages.keys

\* ret after the for loop over the items of a page: ret[item[key]] = {...}
Updated(ret, items, key) ==
    LET new == DictOf(items, key)
    IN [k \in DOMAIN ret \cup DOMAIN new |-> IF k \in DOMAIN new THEN new[k] ELSE ret[k]]

InitList ==
    /\ Alone("list")
    /\ \E method \in ListMethods :
         \E collection \in Collections(method), per_page \in 1..MaxItems, last \in LastLinks :
            fn = [name |-> "list", method |-> method, collection |-> collection,
                  per_page |-> per_page, last |-> last,
                  page |-> 1, fetch |-> TRUE, ret |-> <<>>, requests |-> <<>>,
                  failed |-> 0, out |-> Running]

\* one turn of the while loop with the query of the page inside a try whose except
\* clause ends the loop: the listing returns what the earlier pages gave
ListPage_partial ==
    /\ op = "list" /\ pc = "call" /\ fn.fetch /\ fn.page <= MaxPage
    /\ \E ok \in BOOLEAN :
         IF ~ok
         THEN /\ fn' = [fn EXCEPT !.requests = Append(@, fn.page), !.failed = fn.page,
                                  !.out = Returned("ret")]
              /\ pc' = "done"
         ELSE LET items == PageAnswer(fn.collection, fn.per_page, fn.last, fn.page)
                  ret == Updated(fn.ret, items.items, KeyField(fn.method))
                  fetch == NextFetch(items)
              IN /\ fn' = [fn EXCEPT !.requests = Append(@, fn.page), !.ret = ret,
                                     !.page = @ + 1, !.fetch = fetch,
                                     !.out = IF fetch THEN @ ELSE Returned("ret")]
                 /\ pc' = IF fetch THEN pc ELSE "done"
    /\ UNCHANGED <<op, vm, runVars>>

\* one turn of the while loop: the query of the page, which may raise (fn.failed is then
\* the page), the for loop over its items, and the test for a next page; the listing
\* returns ret when there is none
ListPage ==
    /\ op = "list" /\ pc = "call" /\ fn.fetch /\ fn.page <= MaxPage
    /\ \E ok \in BOOLEAN :
         IF ~ok
         THEN /\ fn' = [fn EXCEPT !.requests = Append(@, fn.page), !.failed = fn.page,
                                  !.out = Raised(HttpError)]
              /\ pc' = "done"
         ELSE LET items == PageAnswer(fn.collection, fn.per_page, fn.last, fn.page)
                  ret == Updated(fn.ret, items.items, KeyField(fn.method))
                  fetch == NextFetch(items)
              IN /\ fn' = [fn EXCEPT !.requests = Append(@, fn.page), !.ret = ret,
                                     !.page = @ + 1, !.fetch = fetch,
                                     !.out = IF fetch THEN @ ELSE Returned("ret")]
                 /\ pc' = IF fetch THEN pc ELSE "done"
    /\ UNCHANGED <<op, vm, runVars>>

NextList == ListPage

SpecList == InitList /\ [][NextList]_vars

(***************************************************************************)
(* The resolvers get_image (lines 202-222) and get_size (lines 225-238),   *)
(* run alone on every listed collection and selector.                      *)
(***************************************************************************)
\* the image collections the provider can list: one or two images of distinct id and
\* name, whose slugs differ unless absent
ImageCollections ==
    LET descriptors == [id : {IntV(<<"7">>), IntV(<<"8">>)}, name : {<<"i">>, <<"j">>},
                        slug : {<<"u">>, <<"v">>, None}]
    IN {<<d>> : d \in descriptors}
       \cup {c \in {<<d, e>> : d \in descriptors, e \in descriptors} :
                  /\ c[1].id # c[2].id /\ c[1].name # c[2].name
                  /\ c[1].slug = c[2].slug => c[1].slug = None}

\* the image selectors of a request: names, slugs, ids, and one that is none of these
ImageSelectors == {<<"i">>, <<"j">>, <<"u">>, <<"7">>, <<"8">>, <<"z">>}

\* the size collections the provider can list: one or two sizes of distinct slug
SizeCollections ==
    LET slugs == {<<"s">>, <<"S">>, <<"b">>}
    IN {<<[slug |-> x]>> : x \in slugs}
       \cup {c \in {<<[slug |-> x], [slug |-> y]>> : x \in slugs, y \in slugs} :
                  c[1].slug # c[2].slug}

\* the size selectors of a request
SizeSelectors == {<<"s">>, <<"S">>, <<"b">>, <<"B">>, <<"z">>}

\* a resolver that has not run
Pending == Fails(NoExc)

\* the region collections the provider can list: one or two regions of distinct name and
\* slug
RegionCollections ==
    LET regions == [name : {<<"N">>, <<"M">>}, slug : {<<"n">>, <<"m">>}]
    IN {<<x>> : x \in regions}
       \cup {c \in {<<x, y>> : x \in regions, y \in regions} :
                  c[1].name # c[2].name /\ c[1].slug # c[2].slug}

\* the location selectors of a request
LocationSelectors == {<<"N">>, <<"n">>, <<"M">>, <<"m">>, <<"z">>}

\* the page sizes by which the provider splits these collections
PageSizes == {1, 2}

\* what the query of a method without a page gets: the first page of the collection
FirstPage(collection, per_page) ==
    PageAnswer(collection, per_page, Links(TRUE, TRUE, {}, {}), 1).items

\* what a listing loop gets from page n on, up to the last page
RECURSIVE PagesFrom(_, _, _)
PagesFrom(collection, per_page, n) ==
    IF n * per_page >= Len(collection)
    THEN PageAnswer(collection, per_page, Links(TRUE, TRUE, {}, {}), n).items
    ELSE PageAnswer(collection, per_page, Links(TRUE, TRUE, {}, {}), n).items
         \o PagesFrom(collection, per_page, n + 1)

InitResolve ==
    /\ Alone("resolve")
    /\ \/ fn \in [name : {"resolve"}, resolver : {"get_image"}, items : ImageCollections,
                   selector : ImageSelectors, per_page : PageSizes,
                   listed : {FALSE}, out : {Pending}]
       \/ fn \in [name : {"resolve"}, resolver : {"get_size"}, items : SizeCollections,
                   selector : SizeSelectors, per_page : PageSizes,
                   listed : {FALSE}, out : {Pending}]
       \/ fn \in [name : {"resolve"}, resolver : {"get_location"}, items : RegionCollections,
                   selector : LocationSelectors, per_page : PageSizes,
                   listed : {FALSE}, out : {Pending}]

\* get_image: the listing of the images page after page, which may raise, and the scan
\* of the dict
ResolveImage ==
    /\ op = "resolve" /\ pc = "call" /\ fn.resolver = "get_image"
    /\ \E ok \in BOOLEAN :
         IF ~ok THEN fn' = [fn EXCEPT !.out = Fails(HttpError)]
         ELSE \E r \in get_image(avail_images(PagesFrom(fn.items, fn.per_page, 1)),
                                 fn.selector) :
                fn' = [fn EXCEPT !.listed = TRUE, !.out = r]
    /\ pc' = "done"
    /\ UNCHANGED <<op, vm, runVars>>

\* get_size: the one query of the sizes (line 161), which may raise, and the scan of the
\* dict
ResolveSize ==
    /\ op = "resolve" /\ pc = "call" /\ fn.resolver = "get_size"
    /\ \E ok \in BOOLEAN :
         IF ~ok THEN fn' = [fn EXCEPT !.out = Fails(HttpError)]
         ELSE \E r \in get_size(avail_sizes(FirstPage(fn.items, fn.per_page)), fn.selector) :
                fn' = [fn EXCEPT !.listed = TRUE, !.out = r]
    /\ pc' = "done"
    /\ UNCHANGED <<op, vm, runVars>>

\* get_location: the one query of the regions (line 110), which may raise, and the scan
\* of the dict
ResolveLocation ==
    /\ op = "resolve" /\ pc = "call" /\ fn.resolver = "get_location"
    /\ \E ok \in BOOLEAN :
         IF ~ok THEN fn' = [fn EXCEPT !.out = Fails(HttpError)]
         ELSE \E r \in get_location(avail_locations(FirstPage(fn.items, fn.per_page)),
                                    fn.selector) :
                fn' = [fn EXCEPT !.listed = TRUE, !.out = r]
    /\ pc' = "done"
    /\ UNCHANGED <<op, vm, runVars>>

NextResolve ==
    \/ ResolveImage
    \/ ResolveSize
    \/ ResolveLocation

SpecResolve == InitResolve /\ [][NextResolve]_vars

(***************************************************************************)
(* _get_node run on its own (lines 591-606): the lookup of a name in the   *)
(* node listing, fetched again after every miss.                           *)
(***************************************************************************)
\* the names a node listing can hold
LookupNames == {<<"w">>, <<"v">>}

\* the droplets a node listing can hold under a name
ListedNodes == {Node(id, n) : id \in DropletIds, n \in Networks}

\* what list_nodes_full can answer: it raises the error of query, or returns a dict from
\* the names of some droplets to their data
NodeListings ==
    {[kind |-> "error", names |-> {}, node |-> EmptyNode]}
    \cup {[kind |-> "dict", names |-> names, node |-> n] :
                names \in SUBSET LookupNames, n \in ListedNodes}

\* no fetch has ended the lookup yet
Looking == [state |-> "pending", value |-> "none", exc |-> NoExc]

InitLookup ==
    /\ Alone("lookup")
    /\ fn \in [name : {"lookup"}, key : LookupNames, attempts : {GetNodeAttempts},
                fetches : {0}, hit : {EmptyNode}, out : {Looking}]

\* _get_node returning {} after the first KeyError
Lookup_oneTry ==
    /\ op = "lookup" /\ pc = "call" /\ fn.attempts >= 0
    /\ \E a \in NodeListings :
         fn' = [fn EXCEPT !.fetches = @ + 1,
                          !.hit = IF fn.key \in a.names THEN a.node ELSE @,
                          !.out = IF a.kind = "error" THEN Raised(HttpError)
                                  ELSE IF fn.key \in a.names THEN Returned(a.node)
                                  ELSE Returned(EmptyNode)]
    /\ pc' = "done"
    /\ UNCHANGED <<op, vm, runVars>>

\* one turn of the while loop of _get_node: list_nodes_full(...)[name] is returned, the
\* error of the listing leaves _get_node, or the KeyError of a listing without the name
\* costs one attempt; with no attempt left (attempts < 0) the loop ends and {} is returned
Lookup ==
    /\ op = "lookup" /\ pc = "call" /\ fn.attempts >= 0
    /\ \E a \in NodeListings :
         IF a.kind = "error"
         THEN /\ fn' = [fn EXCEPT !.fetches = @ + 1, !.out = Raised(HttpError)]
              /\ pc' = "done"
         ELSE IF fn.key \in a.names
         THEN /\ fn' = [fn EXCEPT !.fetches = @ + 1, !.hit = a.node,
                                  !.out = Returned(a.node)]
              /\ pc' = "done"
         ELSE LET left == fn.attempts - 1
              IN /\ fn' = [fn EXCEPT !.fetches = @ + 1, !.attempts = left,
                                     !.out = IF left >= 0 THEN @ ELSE Returned(EmptyNode)]
                 /\ pc' = IF left >= 0 THEN pc ELSE "done"
    /\ UNCHANGED <<op, vm, runVars>>

NextLookup == Lookup

SpecLookup == InitLookup /\ [][NextLookup]_vars

(***************************************************************************)
(* Properties.                                                             *)
(***************************************************************************)
Mutating(c) == c.verb \in {"POST", "DELETE"}
IsDropletPost(c) == c.verb = "POST" /\ c.res = "droplets"
IsDropletDelete(c) == c.verb = "DELETE" /\ c.res = "droplets"
IsDropletGet(c) == c.verb = "GET" /\ c.res = "droplets"
IsRecordDelete(c) == c.verb = "DELETE" /\ c.res = "records"
IsRecordPost(c) == c.verb = "POST" /\ c.res = "records"

\* positions of the log
MutatingCalls == {i \in DOMAIN calls : Mutating(calls[i])}
DropletGets == {i \in DOMAIN calls : IsDropletGet(calls[i])}
DropletDeletes == {i \in DOMAIN calls : IsDropletDelete(calls[i])}
RecordDeletes == {i \in DOMAIN calls : IsRecordDelete(calls[i])}
RecordPosts == {i \in DOMAIN calls : IsRecordPost(calls[i])}
AnyDeletes == {i \in DOMAIN calls : calls[i].verb = "DELETE"}

\* the selectors of the request against the provider's collections: some descriptor
\* matches by name, slug or id (sizes by slug, whatever the letter case)
SizeResolvable == \E i \in DOMAIN ProviderSizes : Lower(vm.size) = Lower(ProviderSizes[i].slug)
ImageResolvable ==
    \E i \in DOMAIN ProviderImages :
        vm.image \in {ProviderImages[i].name, ProviderImages[i].slug, ProviderImages[i].id.v}
LocationResolvable ==
    \E i \in DOMAIN ProviderRegions :
        vm.location \in {ProviderRegions[i].name, ProviderRegions[i].slug}
Unresolvable == ~SizeResolvable \/ ~ImageResolvable \/ ~LocationResolvable

\* C1: in create, when the size, image or location selector matches no descriptor, no
\* mutating call (POST or DELETE) is ever issued, and the run ends by raising.
C1_ResolveFailsBeforeMutation ==
    (op = "create" /\ Unresolvable) =>
        /\ MutatingCalls = {}
        /\ pc = "done" => result.state = "raised"

\* C1 witness: a create whose selector is unresolvable has ended with NotFound
C1_Witness ==
    /\ op = "create" /\ Unresolvable /\ pc = "done"
    /\ result.exc.type = "SaltCloudNotFound"

\* the droplet delete calls logged for the droplet the create call made
DeletesOfCreated == {i \in DropletDeletes : calls[i].id = hist.created}

\* the compensating destroy ended on a provider error before its droplet delete call
LookupErrored == hist.destroyExc = HttpError /\ DropletDeletes = {}

\* C2: when the create call was accepted and no poll ever saw a public address, create
\* ends with the timeout error and exactly one delete call for the created droplet's
\* id was issued, whether the node listing shows the droplet during the destroy or not.
C2_TimeoutDeletesOnce ==
    (op = "create" /\ pc = "done" /\ hist.created # 0 /\ hist.timedOut
        /\ ~hist.everPublic /\ ~LookupErrored) =>
        /\ result = Raised(Exc("SaltCloudSystemExit", TimeoutExc.msg))
        /\ Cardinality(DeletesOfCreated) = 1

\* C3: when the polling timed out, whatever way the compensating destroy ended, create
\* raises the error that carries the timeout's message.
C3_TimeoutSurfaces ==
    (op = "create" /\ pc = "done" /\ hist.timedOut) =>
        result = Raised(Exc("SaltCloudSystemExit", TimeoutExc.msg))

\* C3 witness: the polling timed out and the destroy ended on the KeyError of a lookup
\* miss, which the except clause does not catch
C3_Witness ==
    /\ op = "create" /\ pc = "done" /\ hist.timedOut
    /\ hist.destroyExc.type = "KeyError"

\* C4: when a poll raised an exception other than the timeout, create ends by raising
\* and the compensating destroy was started before that.
C4_PollExceptionCompensates ==
    (op = "create" /\ pc = "done" /\ hist.pollRaised) =>
        /\ result.state = "raised"
        /\ exc # NoExc

\* the droplet a poll saw has an address tagged public, in its v4 or in its v6 list
SawPublic(d) == d.found /\ (HasPublic(d.networks.v4) \/ HasPublic(d.networks.v6))

\* C5: a completed poll succeeded if and only if the droplet it saw has an address
\* tagged public in its v4 list or in its v6 list.
C5_ReadyIffPublicEitherFamily ==
    (op = "create" /\ hist.npolls > 0) => (hist.lastReady <=> SawPublic(hist.lastPoll))

\* C6: a poll that is not ready is no error: unless a poll raised, create is polling
\* again after it, and the timeout is raised only once the budget is spent and no poll
\* within it saw a public address.
C6_NotReadyKeepsPolling ==
    op = "create" =>
        /\ hist.timedOut => (remaining <= 0 /\ ~hist.everPublic)
        /\ (hist.npolls > 0 /\ ~hist.lastReady /\ ~hist.timedOut /\ ~hist.pollRaised)
               => (pc \in {"_get_node", "__query_node_data"} /\ ctx = "poll")

\* C7: when the droplet-create call failed, create has returned False and that call is
\* the last remote call of the run: no poll, no delete, no record write, no handoff.
C7_CreateCallFailureStops ==
    hist.postFailed =>
        /\ pc = "done" /\ result = Returned("False")
        /\ IsDropletPost(calls[Len(calls)])
        /\ DropletGets = {}
        /\ AnyDeletes = {}
        /\ RecordPosts = {}
        /\ bootstrap = None

\* C7 witness: the droplet-create call failed
C7_Witness == hist.postFailed /\ pc = "done"

\* C8: once the droplet delete call of a destroy has succeeded, destroy returns the
\* delete result, whatever happens in the DNS cleanup.
C8_CleanupNeverFailsDestroy ==
    (op = "destroy" /\ pc = "done" /\ hist.deleted) => result = Returned(node)

\* the ids of the fetched records whose name is the hostname derived from the name
MatchingIds ==
    {hist.zone[i].id : i \in {j \in DOMAIN hist.zone :
                                hist.zone[j].name = DestroyHostname(vm.name)}}

\* the ids of the records a delete call was issued for
DeletedIds == {calls[i].id : i \in RecordDeletes}

\* C9: a delete call is issued only for fetched records whose name is the derived
\* hostname, and once the cleanup has ended one was issued for every such record.
C9_DeletesExactlyMatching ==
    /\ DeletedIds \subseteq MatchingIds
    /\ (hist.fetched /\ pc = "done") => DeletedIds = MatchingIds

\* C10: when the delete call of a matching record failed, the failure is not escalated
\* and a delete call was still issued for every matching record.
C10_FailedDeleteIsSkipped ==
    (hist.failedIds # {} /\ pc = "done") =>
        /\ hist.destroyExc = NoExc
        /\ MatchingIds \subseteq DeletedIds

\* the addresses tagged public in a network list of a droplet
PublicIps(nets) == {nets[i].ip_address : i \in {j \in DOMAIN nets : nets[j].type = "public"}}

\* the record create calls issued so far that carry this type and this address
PostsOf(type, ip) == {i \in DOMAIN hist.posted : hist.posted[i].type = type
                                                  /\ hist.posted[i].data = ip}

DnsUnderivable == Len(Split(vm.name)) < 3 /\ vm.dns_domain = None

\* the positions of the log whose call names a domain
DomainCalls == {i \in DOMAIN calls : calls[i].domain # None}

\* the positions of the log that hold a call of post_dns_record
SyncCalls == {i \in DOMAIN calls : calls[i].res = "domains" \/ IsRecordPost(calls[i])}

\* create has run every resolver and has ended
EndedAfterResolving ==
    pc = "done" /\ kwargs.region # StrV(None) /\ todo = <<>>

\* C12: in a create with DNS-sync, when the name has fewer than three labels and no
\* dns_domain is set, no droplet-create call, no poll, no DNS call and no handoff ever
\* happens and create ends by raising, with the configuration error once the resolvers
\* have passed; and every call of the DNS-sync uses the dns_domain and dns_hostname of
\* the request where it sets them.
C12_DnsNamesCheckedBeforeCreate ==
    (op = "create" /\ vm.create_dns_record) =>
        /\ DnsUnderivable =>
              /\ MutatingCalls = {} /\ DropletGets = {} /\ DomainCalls = {}
              /\ bootstrap = None
              /\ pc = "done" => result.state = "raised"
              /\ EndedAfterResolving => result.exc.type = "SaltCloudConfigError"
        /\ \A i \in SyncCalls : vm.dns_domain # None => calls[i].domain = vm.dns_domain
        /\ \A i \in DOMAIN hist.posted :
              /\ vm.dns_domain # None => hist.posted[i].domain = vm.dns_domain
              /\ vm.dns_hostname # None => hist.posted[i].name = vm.dns_hostname

\* C12 witness: a create with DNS-sync and a one- or two-label name has passed the
\* resolvers and ended with the configuration error
C12_Witness ==
    /\ op = "create" /\ vm.create_dns_record /\ DnsUnderivable
    /\ EndedAfterResolving
    /\ result = Raised(ConfigError("create_dns_record"))

\* the first address tagged public of a network list, or None
FirstPublicOf(nets) ==
    IF HasPublic(nets)
    THEN nets[CHOOSE i \in DOMAIN nets :
                  /\ nets[i].type = "public"
                  /\ \A j \in DOMAIN nets : nets[j].type = "public" => i <= j].ip_address
    ELSE None

\* the first public address of a droplet, the v4 list before the v6 list, or None
FirstPublic(networks) ==
    IF HasPublic(networks.v4) THEN FirstPublicOf(networks.v4) ELSE FirstPublicOf(networks.v6)

\* C13 as stated: for every request, the address handed to the bootstrap is the first
\* public address of the droplet the successful poll saw, v4 before v6, and a create
\* that returns has handed one off.
C13_HandoffIsFirstPublic ==
    op = "create" =>
        /\ bootstrap # None => bootstrap = FirstPublic(hist.lastPoll.networks)
        /\ result = Returned("ret") => bootstrap # None

\* C13, amended: the address handed to the bootstrap is the ssh_host of the request
\* when it sets one, and otherwise the first public address of the droplet the
\* successful poll saw, v4 before v6; no handoff happens without such an address, and
\* a create that returns has handed one off.
C13_HandoffIsSshHostOrFirstPublic ==
    op = "create" =>
        /\ bootstrap # None =>
              /\ bootstrap = IF Truthy(vm.ssh_host) THEN vm.ssh_host
                             ELSE FirstPublic(hist.lastPoll.networks)
              /\ Truthy(bootstrap)
        /\ result = Returned("ret") => bootstrap # None

\* C13 witness: a request without ssh_host was handed off after the poll saw public
\* addresses in both families
C13_Witness ==
    /\ op = "create" /\ bootstrap # None /\ ~Truthy(vm.ssh_host)
    /\ HasPublic(hist.lastPoll.networks.v4) /\ HasPublic(hist.lastPoll.networks.v6)
    /\ result = Returned("ret")

\* C14: every record create call directly follows a read of its domain, and when that
\* read finds no such domain at the provider, post_dns_record skips the record (no
\* create call, result False) instead of raising.
C14_MissingDomainIsNoOp ==
    op = "create" =>
        /\ \A i \in RecordPosts :
              i > 1 /\ calls[i - 1] = Call("GET", "domains", 0, calls[i].domain)
        /\ hist.missing \in {"none", "skipped"}

\* a status member that spells error in whatever letter case
SpellsError(status) ==
    /\ status # None /\ Len(status) = 5
    /\ status[1] \in {"e", "E"} /\ status[2] \in {"r", "R"} /\ status[3] \in {"r", "R"}
    /\ status[4] \in {"o", "O"} /\ status[5] \in {"r", "R"}

\* what query raises on a status of 300 or above: the status code and the text
StatusError == Raised(Exc("SaltCloudSystemExit", [code |-> fn.status_code, text |-> fn.text]))

C16_ListingReturnsEveryItem ==
    (op = "list" /\ pc = "done" /\ fn.out.state = "returned") =>
        /\ Cardinality(DOMAIN fn.ret) = Len(fn.collection)
        /\ \A i \in DOMAIN fn.collection : \E k \in DOMAIN fn.ret : fn.ret[k] = fn.collection[i]

\* the listed images the selector equals by name, by slug, or by id written as a string
ImageHits ==
    {i \in DOMAIN fn.items : fn.selector \in {fn.items[i].name, fn.items[i].slug,
                                               fn.items[i].id.v}}

\* what get_image returns for an image: its slug, or its id when it has none
Canonical(image) == IF image.slug # None THEN StrV(image.slug) ELSE image.id

\* C17: on a listed collection, get_image returns the slug (or id) of an image whose id,
\* name or slug the selector equals as a string whenever there is one, and raises
\* NotFound only when there is none.
C17_ImageByIdNameOrSlug ==
    (op = "resolve" /\ pc = "done" /\ fn.resolver = "get_image" /\ fn.listed) =>
        IF ImageHits # {}
        THEN fn.out.ok /\ fn.out.v \in {Canonical(fn.items[i]) : i \in ImageHits}
        ELSE fn.out = NotFound

\* C18: on a listed collection, whenever the selector equals a slug ignoring letter
\* case, get_size returns a slug that equals the selector ignoring letter case.
C18_SizeIgnoringCase ==
    (op = "resolve" /\ pc = "done" /\ fn.resolver = "get_size" /\ fn.listed) =>
        \A i \in DOMAIN fn.items :
            Lower(fn.selector) = Lower(fn.items[i].slug) =>
                (fn.out.ok /\ Lower(fn.out.v.v) = Lower(fn.selector))

\* the key names the request asks for: ssh_key_name and the parts of ssh_key_names
\* between its commas, the empty ones left out
RequestedKeyNames ==
    ((IF Truthy(vm.ssh_key_name) THEN {vm.ssh_key_name} ELSE {})
     \cup (IF Truthy(vm.ssh_key_names)
           THEN LET parts == SplitOn(",", vm.ssh_key_names)
                IN {parts[i] : i \in DOMAIN parts}
           ELSE {}))
    \ {<<>>}

\* the names of the key pairs the provider lists
ListedKeyNames == {ProviderKeys[i].name : i \in DOMAIN ProviderKeys}

\* the id the provider lists for a key name
ListedKeyId(keyname) ==
    (CHOOSE k \in {ProviderKeys[i] : i \in DOMAIN ProviderKeys} : k.name = keyname).id.v

\* the ids in create's payload
PayloadKeyIds == {kwargs.ssh_keys[i].v : i \in DOMAIN kwargs.ssh_keys}

\* the positions of the log that hold the droplet-create call
DropletPosts == {i \in DOMAIN calls : IsDropletPost(calls[i])}

\* C19: the droplet-create call is issued only for a request whose ssh_key_file is set
\* and exists and whose requested key names are all listed, with their ids in the
\* payload; a request without ssh_key_file, with one that does not exist, or with a
\* key name that is not listed gets no droplet-create call and ends by raising.
C19_KeysCheckedBeforeCreate ==
    op = "create" =>
        /\ DropletPosts # {} =>
              /\ vm.ssh_key_file # None /\ isfile(vm.ssh_key_file)
              /\ RequestedKeyNames \subseteq ListedKeyNames
              /\ \A n \in RequestedKeyNames : ListedKeyId(n) \in PayloadKeyIds
        /\ (\/ vm.ssh_key_file = None
            \/ ~isfile(vm.ssh_key_file)
            \/ ~(RequestedKeyNames \subseteq ListedKeyNames)) =>
              /\ DropletPosts = {}
              /\ pc = "done" => result.state = "raised"

\* C19 witness: a request with a key name the provider does not list has ended on the
\* lookup of that name, all selectors and the first key name resolved
C19_Witness ==
    /\ op = "create" /\ pc = "done" /\ ~(RequestedKeyNames \subseteq ListedKeyNames)
    /\ kwargs.region # StrV(None) /\ Len(kwargs.ssh_keys) = 1
    /\ result = Raised(Exc("KeyError", "keyname"))

\* C20: every record create call of a create is for the domain whose records a destroy
\* of the same name fetches, and carries the hostname by which that destroy selects
\* the records to delete.
C20_SyncAndCleanupAgree ==
    op = "create" =>
        \A i \in DOMAIN hist.posted :
            /\ hist.posted[i].domain = DestroyDomain(vm.name)
            /\ hist.posted[i].name = DestroyHostname(vm.name)

\* the number of dots in a string
Dots(str) == Cardinality({i \in DOMAIN str : str[i] = "."})

\* create has passed the check of the DNS names of a request with DNS-sync
DnsNamesSet == op = "create" /\ vm.create_dns_record /\ dns.domain # None

\* C21: where the request sets no override, the names create goes on with are derived
\* from the machine name: for three or more labels the domain is the last two labels
\* and the hostname all before them (hostname, a dot and domain spell the name, and the
\* domain holds one dot); for fewer labels no domain is derived (create goes on only
\* with the domain of the request) and the hostname is the first label of the name.
C21_FqdnDecomposition ==
    DnsNamesSet =>
        IF Dots(vm.name) >= 2
        THEN /\ vm.dns_domain = None => Dots(dns.domain) = 1
             /\ (vm.dns_domain = None /\ vm.dns_hostname = None) =>
                    vm.name = dns.hostname \o <<".">> \o dns.domain
             /\ vm.dns_hostname = None =>
                    /\ Len(dns.hostname) < Len(vm.name) - 3
                    /\ SubSeq(vm.name, 1, Len(dns.hostname) + 1) = dns.hostname \o <<".">>
                    /\ Dots(SubSeq(vm.name, Len(dns.hostname) + 2, Len(vm.name))) = 1
        ELSE /\ vm.dns_domain # None /\ dns.domain = vm.dns_domain
             /\ vm.dns_hostname = None =>
                    /\ Dots(dns.hostname) = 0
                    /\ \/ vm.name = dns.hostname
                       \/ /\ Len(dns.hostname) < Len(vm.name)
                          /\ SubSeq(vm.name, 1, Len(dns.hostname) + 1) = dns.hostname \o <<".">>

\* C21 witness: create goes on with the names derived from a name of four labels
C21_Witness ==
    /\ DnsNamesSet /\ Dots(vm.name) = 3
    /\ dns = [hostname |-> <<"w", ".", "u">>, domain |-> <<"e", ".", "c">>]

\* page n of the collection listed carries no has-more signal: its links or their pages
\* are absent, or the pages hold no next, or a next that is null or false
StopsAt(n) ==
    LET links == PageAnswer(fn.collection, fn.per_page, fn.last, n).links
    IN \/ ~links.present
       \/ ~links.pages.present
       \/ "next" \notin links.pages.keys
       \/ "next" \in links.pages.falsy

\* the number of pages the collection listed is split into
NumPages ==
    IF fn.collection = <<>> THEN 1
    ELSE (Len(fn.collection) + fn.per_page - 1) \div fn.per_page

\* C22: a listing requests the pages 1, 2, 3, ... in order, requests no page after one
\* that carries no has-more signal, and is over once such a page was answered, so that
\* it requests no more pages than the collection has.
C22_ListingStopsAtLastPage ==
    op = "list" =>
        /\ fn.requests = [i \in 1..Len(fn.requests) |-> i]
        /\ \A i \in 1..(Len(fn.requests) - 1) : ~StopsAt(i)
        /\ (fn.requests # <<>> /\ StopsAt(Len(fn.requests))) => pc = "done"
        /\ Len(fn.requests) <= NumPages

\* C23: when the query of a page failed, the listing is over with the error of that
\* query as its outcome and nothing returned, the failed page is the last one requested
\* and was requested once, whatever the earlier pages gave.
C23_ListingFailsAsAWhole ==
    (op = "list" /\ fn.failed # 0) =>
        /\ pc = "done"
        /\ fn.out = Raised(HttpError)
        /\ Len(fn.requests) = fn.failed
        /\ \A i \in DOMAIN fn.requests : fn.requests[i] = fn.failed => i = fn.failed

\* C23 witness: the query of the second page failed after the first page gave items
C23_Witness ==
    /\ op = "list" /\ fn.failed = 2 /\ DOMAIN fn.ret # {}
    /\ fn.out.state = "raised"

\* the listed items that get_size or get_location compares equal to the selector
SelectorHits ==
    {i \in DOMAIN fn.items :
        IF fn.resolver = "get_size" THEN Lower(fn.selector) = fn.items[i].slug
        ELSE fn.selector \in {fn.items[i].name, fn.items[i].slug}}

\* C24: get_size and get_location find every size and region of the provider's
\* collection that the selector matches, on whatever page the provider returns it.
C24_ResolversSeeWholeCollection ==
    (op = "resolve" /\ pc = "done" /\ fn.resolver \in {"get_size", "get_location"}
        /\ fn.listed /\ SelectorHits # {}) =>
        (fn.out.ok /\ fn.out.v \in {StrV(fn.items[i].slug) : i \in SelectorHits})

\* C25: in a create, the droplet-create call is issued at most once and before every
\* poll, every poll comes before every call of the DNS-sync, and the DNS-sync starts
\* only after a successful poll; the bootstrap is called at most once, only after a
\* successful poll that saw a public address, and it ends the run: no remote call
\* follows it and create returns its result; create returns that result only after the
\* call of the bootstrap.
C25_CreateStepOrder ==
    op = "create" =>
        /\ Cardinality(DropletPosts) <= 1
        /\ \A i \in DropletGets : \E j \in DropletPosts : j < i
        /\ \A i \in SyncCalls : hist.lastReady /\ \A j \in DropletGets : j < i
        /\ hist.handoffs <= 1
        /\ hist.handoffs = 1 =>
              /\ hist.lastReady /\ SawPublic(hist.lastPoll)
              /\ addrs = <<>> /\ pc = "done" /\ result = Returned("ret")
        /\ result = Returned("ret") => (hist.handoffs = 1 /\ bootstrap # None)

\* C25 witness: a create with DNS-sync has returned the result of the bootstrap after a
\* poll that was not ready, a poll that was, and two record create calls
C25_Witness ==
    /\ op = "create" /\ result = Returned("ret") /\ hist.handoffs = 1
    /\ hist.npolls = 2 /\ Cardinality(RecordPosts) = 2

\* create is inside wait_for_ip: the create call was accepted and the polling has not ended
Polling == op = "create" /\ ctx = "poll" /\ pc \in {"_get_node", "__query_node_data"}

\* C26: a step of create taken while it waits for the address issues no call or one GET
\* of the node listing: no POST and no DELETE is issued between the acceptance of the
\* create call and the end of the polling.
C26_PollingOnlyReads ==
    [][Polling => (calls' = calls \/ calls' = Append(calls, Call("GET", "droplets", 0, None)))]_vars

\* C26 witness: create is still polling after a poll that was not ready, and the log
\* holds the create call followed by the reads of the polls
C26_Witness ==
    /\ Polling /\ pc = "_get_node" /\ hist.npolls >= 1
    /\ Len(calls) >= 2 /\ IsDropletGet(calls[Len(calls)]) /\ IsDropletPost(calls[Len(calls) - 1])

\* positions of the log: the reads and the deletes of DNS records
RecordReads == {i \in DOMAIN calls : calls[i].verb = "GET" /\ calls[i].res = "records"}

\* C27: a droplet delete call is issued only after a fetch of the node listing and for
\* the id of the instance found by name; a read or a delete of DNS records is issued
\* only after a droplet delete call that returned without error; a destroy that ended
\* without such a delete call (the lookup missed or raised, or the delete call failed)
\* ended with an error and issued no call on DNS records.
C27_DestroyStepOrder ==
    /\ \A i \in DropletDeletes :
         /\ data.found /\ calls[i].id = data.id
         /\ \E j \in DropletGets : j < i
    /\ \A i \in RecordReads \cup RecordDeletes :
         hist.deleted /\ \E j \in DropletDeletes : j < i
    /\ (op = "destroy" /\ pc = "done" /\ ~hist.deleted) =>
         /\ result.state = "raised"
         /\ RecordReads \cup RecordDeletes = {}
         /\ ~data.found => (DropletDeletes = {} /\ result.exc.type \in {"KeyError", HttpError.type})

\* C27 witness: a destroy found the instance, its delete call failed, and destroy ended
\* with that error
C27_Witness ==
    /\ op = "destroy" /\ pc = "done" /\ data.found /\ ~hist.deleted
    /\ DropletDeletes # {} /\ result = Raised(HttpError)

\* C28: when a record create call of the DNS-sync failed, the instance had been created
\* and found ready, create has ended by raising the error of that call, the bootstrap
\* was not called, and no delete call was issued: the created instance is left running.
C28_FailedRecordWriteLeavesInstance ==
    (op = "create" /\ hist.writeFailed) =>
        /\ hist.created # 0 /\ hist.lastReady
        /\ pc = "done" /\ result = Raised(HttpError)
        /\ hist.handoffs = 0 /\ bootstrap = None
        /\ AnyDeletes = {}
        /\ IsRecordPost(calls[Len(calls)])

\* C28 witness: the record of the first public address was written and the write of the
\* second failed
C28_Witness ==
    /\ op = "create" /\ hist.writeFailed /\ pc = "done"
    /\ Cardinality(RecordPosts) = 2 /\ Len(hist.posted) = 2

\* C29: a lookup by name ends within 11 fetches of the node listing: every turn of its
\* loop is one more fetch and no turn follows the 11th; it returns the droplet listed
\* under the name by the first fetch that lists it, and it returns the empty dict
\* exactly when 11 fetches have answered and none listed the name.
C29_LookupEndsWithinElevenFetches ==
    op = "lookup" =>
        /\ fn.fetches <= 11
        /\ pc = "call" =>
              /\ fn.fetches < 11 /\ fn.fetches = GetNodeAttempts - fn.attempts
              /\ fn.out = Looking /\ ~fn.hit.found
        /\ pc = "done" => fn.fetches >= 1 /\ fn.out.state \in {"returned", "raised"}
        /\ fn.hit.found => (pc = "done" /\ fn.out.state = "returned" /\ fn.out.value = fn.hit)
        /\ (pc = "done" /\ fn.out.state = "returned" /\ ~fn.hit.found) =>
              (fn.fetches = 11 /\ fn.out.value = EmptyNode)

\* C29 witness: ten fetches missed the name and the eleventh listed it
C29_Witness ==
    op = "lookup" /\ pc = "done" /\ fn.fetches = 11 /\ fn.hit.found /\ fn.out.state = "returned"

====
